---- MODULE Spec2Model ----
(***************************************************************************)
(* Payment Monitor (src/index.js): an Express application that receives    *)
(* Stripe webhooks, normalizes payment-failure events into one record,     *)
(* sends a Gmail alert, adds a row to Airtable and keeps an in-memory      *)
(* audit log of at most 50 entries.                                        *)
(*                                                                         *)
(* Node runs one callback at a time and empties the microtask queue after  *)
(* it, so an action is one turn of the event loop: the arrival of a        *)
(* request, or the settling of a call to an external collaborator,         *)
(* followed by all the code that runs until the handler awaits the next    *)
(* collaborator or has answered.  An await of a promise that is already    *)
(* settled resumes in the same turn.  The external collaborators (Stripe's *)
(* signature verifier, the Gmail client, the Airtable client) are not part *)
(* of the repository: each of their calls returns or throws, chosen        *)
(* nondeterministically, and each settles in a turn of its own.            *)
(*                                                                         *)
(* Four specifications share the handlers:                                 *)
(*   Spec        the process from its construction on, with overlapping    *)
(*               requests of the pipeline;                                 *)
(*   SpecRunning the running process, its log short or about to overflow,  *)
(*               serving GET /logs as well;                                *)
(*   SpecEvents  webhooks that carry events of every shape, for what the   *)
(*               Normalizer makes of them and what the sinks are handed;   *)
(*   SpecFair    the process with collaborators that always settle.        *)
(***************************************************************************)
EXTENDS Integers, Sequences, FiniteSets, TLC

\* ------------------------------------------------------------ bounds

\* Request slots; each slot carries one HTTP request from arrival to response.
NumReqs == 2
\* The slots in use when the webhooks carry events of every shape.
NumDeliveries == 1
\* The running process starts from the state its start-up leaves or from
\* the state this many earlier appends to the audit log leave.
PastAppends == 49

\* ------------------------------------------------- program constants

\* if (logs.length > 50) logs = logs.slice(-50)
LogBound == 50
\* logs.slice(-20) in GET /logs
SnapshotSize == 20

Reqs == 1..NumReqs
Deliveries == 1..NumDeliveries
PastCounts == {1, PastAppends}

VARIABLES
  logs,        \* the module-level array `logs`
  now,         \* the wall clock read by new Date(); it advances with every append
  listening,   \* the callback of app.listen has run
  snapshot,    \* the logs array GET /logs answered with, when the last turn
               \* served GET /logs; <<>> otherwise
  pc,          \* per request: where its handler is suspended
  route,       \* per request: "none", "webhook" or "test"
  payload,     \* per request: what req.body held when constructEvent was called
  event,       \* per request: the event the verifier returned
  paymentData, \* per request: the record given to sendGmailAlert and addToAirtable
  err,         \* per request: message of the error being thrown, "" when none
  returned,    \* per request: id of the record addToAirtable returned, "" when none
  response,    \* per request: the responses sent, in order
  calls,       \* per request: what its handler called and what came back to
               \* it, in order
  mail,        \* per request: the message handed to gmail.users.messages.send
  row,         \* per request: the fields handed to table.create
  appended,    \* per request: the log entries it appended, in order
  given,       \* per request: the record as sendGmailAlert and addToAirtable
               \* received it, one element for each call, in order
  history      \* every entry ever appended to the log, in order

vars == <<logs, now, listening, snapshot, pc, route, payload, event,
          paymentData, err, returned, response, calls, mail, row, appended,
          given, history>>

\* ------------------------------------------------------- JS helpers

\* The value of a property that an object does not have.
Undefined == "<undefined>"

\* null, as Stripe delivers a field that has no value.
Null == "<null>"

\* o.f
Get(o, f) == IF f \in DOMAIN o THEN o[f] ELSE Undefined

\* a || b on strings: undefined, null and "" are falsy.
OrElse(a, b) == IF a = Undefined \/ a = Null \/ a = "" THEN b ELSE a

\* Array.prototype.slice(-n): the last n elements, all of them when fewer.
SliceLast(s, n) ==
  IF Len(s) <= n THEN s ELSE SubSeq(s, Len(s) - n + 1, Len(s))

\* new Date(ms).toISOString()
ToISOString(ms) == "T" \o ToString(ms) \o "Z"

\* -------------------------------------------------------- audit log

LogEntry(t, message) == [timestamp |-> t, message |-> message]

\* A plausible slip: slice(50) keeps what lies beyond the first 50 entries.
AddLogToKeepOldest(l, t, message) ==
  LET pushed == Append(l, LogEntry(t, message))
  IN  IF Len(pushed) > LogBound THEN SubSeq(pushed, 1, LogBound) ELSE pushed

\* addLog on the array l at time t: push, then keep the last 50.
AddLogTo(l, t, message) ==
  LET pushed == Append(l, LogEntry(t, message))
  IN  IF Len(pushed) > LogBound THEN SliceLast(pushed, LogBound) ELSE pushed

\* The array after addLog has been called with each of msgs in turn, the
\* first at time t; the clock advances by one with every call.
RECURSIVE AddAllTo(_, _, _)
AddAllTo(l, t, msgs) ==
  IF msgs = <<>> THEN l
  ELSE AddAllTo(AddLogTo(l, t, Head(msgs)), t + 1, Tail(msgs))

\* The entries those calls create.
RECURSIVE Entries(_, _)
Entries(t, msgs) ==
  IF msgs = <<>> THEN <<>>
  ELSE <<LogEntry(t, Head(msgs))>> \o Entries(t + 1, Tail(msgs))

\* ---------------------------------------------------------- messages

StartedMsg == "Payment Monitor started on port 3000"
SigFailMsg(m) == "Webhook signature verification failed: " \o m
GmailSentMsg(id) == "Gmail alert sent for payment " \o id
GmailErrorMsg(m) == "Error sending Gmail alert: " \o m
AirtableAddedMsg(id) == "Added to Airtable: " \o id
AirtableErrorMsg(m) == "Error adding to Airtable: " \o m
ProcessedMsg(id) == "Successfully processed failed payment: " \o id
ProcessErrorMsg(m) == "Error processing failed payment: " \o m
WebhookProcessedMsg(type) == "Webhook processed: " \o type
WebhookErrorMsg(m) == "Error processing webhook: " \o m

\* Messages of the errors the collaborators and the runtime throw.
VerifyError == "No signatures found matching the expected signature"
GmailError == "gmail send failed"
AirtableError == "airtable create failed"
TypeErrorMsg == "Cannot read properties of undefined (reading 'toUpperCase')"

\* The message of the i-th of the earlier appends: the start-up entry, then
\* one entry for each earlier webhook request whose signature was rejected.
PastMessage(i) == IF i = 1 THEN StartedMsg ELSE SigFailMsg(VerifyError)

\* Every entry p earlier appends created; the clock started at 0.
PastHistory(p) == [i \in 1..p |-> LogEntry(i - 1, PastMessage(i))]

\* The log after p earlier appends: what the last of them, an addLog like
\* the others, left of the entries before it and its own.
PastLog(p) ==
  IF p = 0 THEN <<>>
  ELSE AddLogTo(SliceLast(PastHistory(p - 1), LogBound), p - 1, PastMessage(p))

\* ------------------------------------------------------- middleware

\* Stripe posts application/json; anybody else may post anything.
ContentTypes == {"application/json", "text/plain"}

\* An arriving request: its body is still the unread stream.
Incoming(ct) == [contentType |-> ct, body |-> "stream", parsed |-> FALSE]

\* app.use(express.json()): a body of type application/json is read and
\* parsed into an object; any other body is left unread and req.body is empty.
ExpressJson(q) ==
  IF q.parsed THEN q
  ELSE IF q.contentType = "application/json"
       THEN [q EXCEPT !.body = "parsed", !.parsed = TRUE]
       ELSE [q EXCEPT !.body = "empty"]

\* app.use(express.raw({ type: 'application/json' })): skips a request whose
\* body an earlier parser has parsed; otherwise reads application/json as a Buffer.
ExpressRaw(q) ==
  IF q.parsed THEN q
  ELSE IF q.contentType = "application/json"
       THEN [q EXCEPT !.body = "raw", !.parsed = TRUE]
       ELSE [q EXCEPT !.body = "empty"]

\* The middleware in the order of the app.use calls.
Middleware(q) == ExpressRaw(ExpressJson(q))

\* stripe.webhooks.constructEvent(req.body, sig, secret): on the raw bytes it
\* returns the event when the signature is valid and throws when it is not,
\* and with no body it throws; what the SDK does with a parsed body is not
\* decided by this repository.  TRUE: it returns the event.
VerifierOutcomes(body) ==
  IF body = "empty" THEN {FALSE} ELSE BOOLEAN

\* ----------------------------------------------------------- events

\* Verified events as Stripe delivers them.  An absent property is a field
\* the record does not have.
PiEvent ==
  [type |-> "payment_intent.payment_failed", created |-> 3,
   data |-> [object |->
     [id |-> "pi_1", amount |-> 1999, currency |-> "eur"]]]

InvoiceEvent ==
  [type |-> "invoice.payment_failed", created |-> 5,
   data |-> [object |->
     [id |-> "in_1", customer_email |-> "c@x.com", amount_due |-> 4200,
      currency |-> "usd"]]]

ChargeEvent ==
  [type |-> "charge.failed", created |-> 7,
   data |-> [object |->
     [id |-> "ch_1", billing_details |-> [email |-> "a@b.com"],
      amount |-> 2500, currency |-> "usd",
      failure_code |-> "expired_card",
      failure_message |-> "Your card has expired."]]]

\* A charge whose currency is missing: rendering it throws in both sinks.
NoCurrencyEvent ==
  [type |-> "charge.failed", created |-> 7,
   data |-> [object |->
     [id |-> "ch_2", receipt_email |-> "r@x.com", amount |-> 100]]]

OtherEvent ==
  [type |-> "customer.created", created |-> 9,
   data |-> [object |-> [id |-> "cus_1"]]]

\* The events the requests of the pipeline carry.
Events == {ChargeEvent, NoCurrencyEvent, OtherEvent}

\* null, held by a property whose values are objects.
NullObject == [null |-> Null]

\* The object o with the property f set to v, and without the property f.
With(o, f, v) == (f :> v) @@ o
Without(o, f) == [g \in DOMAIN o \ {f} |-> o[g]]

\* What a nullable email field of a Stripe object holds.
Emails(address) == {Null, address}

\* payment_intent.payment_failed events: receipt_email and last_payment_error
\* are nullable, and an older API version leaves last_payment_error out.
PiEvents ==
  { [PiEvent EXCEPT !.data.object =
       With(With(@, "receipt_email", email), "last_payment_error", lpe)] :
      email \in Emails("p@x.com"),
      lpe \in {NullObject,
               [code |-> "card_declined", message |-> "Your card was declined."]} }
  \cup
  { [PiEvent EXCEPT !.data.object = With(@, "receipt_email", email)] :
      email \in Emails("p@x.com") }

\* invoice.payment_failed events: customer_email is nullable, and the invoice
\* may carry a field that names a failure.
InvoiceEvents ==
  { [InvoiceEvent EXCEPT !.data.object =
       LET o == [@ EXCEPT !.customer_email = email, !.amount_due = due]
                  @@ [amount_paid |-> 0, amount_remaining |-> due]
       IN  IF named THEN With(o, "failure_code", "card_declined") ELSE o] :
      email \in Emails("c@x.com"),
      due \in {4200, 5},
      named \in BOOLEAN }

\* A charge with the given receipt_email, failure_code and failure_message.
ChargeOf(receipt, failure) ==
  With([ChargeEvent.data.object EXCEPT !.failure_code = failure[1],
                                       !.failure_message = failure[2]],
       "receipt_email", receipt)

\* The nullable failure_code and failure_message of a charge.
Failures == {<<Null, Null>>, <<"expired_card", "Your card has expired.">>}

\* charge.failed events: receipt_email, billing_details.email, failure_code
\* and failure_message are nullable, and billing_details may be left out.
ChargeEvents ==
  { [ChargeEvent EXCEPT !.data.object =
       With(ChargeOf(receipt, failure), "billing_details", billing)] :
      receipt \in Emails("r@x.com"),
      billing \in {[email |-> Null], [email |-> "a@b.com"]},
      failure \in Failures }
  \cup
  { [ChargeEvent EXCEPT !.data.object =
       Without(ChargeOf(receipt, failure), "billing_details")] :
      receipt \in Emails("r@x.com"),
      failure \in Failures }

\* Events of every shape Stripe delivers for the three recognized types, and
\* an event of another type.
AllEvents == PiEvents \cup InvoiceEvents \cup ChargeEvents \cup {OtherEvent}

NoEvent == [type |-> "none"]

\* The list tested by .includes(event.type) in the webhook route.
RecognizedTypes ==
  {"payment_intent.payment_failed", "invoice.payment_failed", "charge.failed"}

\* A slip: the filter lets every verified event through.
RecognizedEverything(type) == TRUE

Recognized(type) == type \in RecognizedTypes

\* ------------------------------------------------------- normalizer

\* o.f?.g: undefined when o.f is undefined or null.
OptGet(o, f, g) ==
  IF f \in DOMAIN o /\ o[f] # NullObject THEN Get(o[f], g) ELSE Undefined

\* let paymentData = {}
EmptyRecord ==
  [payment_id |-> Undefined, customer_email |-> Undefined,
   amount |-> Undefined, currency |-> Undefined,
   failure_code |-> Undefined, failure_message |-> Undefined,
   failed_at |-> Undefined]

\* A slip: the record is stamped with the time of processing, as testData is.
FailedAtProcessing(e) == ToISOString(now)

\* new Date(event.created * 1000).toISOString()
FailedAt(e) == ToISOString(e.created * 1000)

\* The record made of a payment_intent.payment_failed event.
FromPaymentIntent(e) ==
  LET pi == e.data.object
  IN  [payment_id |-> Get(pi, "id"),
       customer_email |-> OrElse(Get(pi, "receipt_email"), "Unknown"),
       amount |-> Get(pi, "amount"),
       currency |-> Get(pi, "currency"),
       failure_code |-> OptGet(pi, "last_payment_error", "code"),
       failure_message |-> OptGet(pi, "last_payment_error", "message"),
       failed_at |-> FailedAt(e)]

\* A slip: the amount is converted to major units in the record.
FromInvoiceMajorUnits(e) ==
  LET invoice == e.data.object
  IN  [payment_id |-> Get(invoice, "id"),
       customer_email |-> OrElse(Get(invoice, "customer_email"), "Unknown"),
       amount |-> Get(invoice, "amount_due") \div 100,
       currency |-> Get(invoice, "currency"),
       failure_code |-> "invoice_payment_failed",
       failure_message |-> "Invoice payment failed",
       failed_at |-> FailedAt(e)]

\* A slip: the failure the invoice names is copied when there is one.
FromInvoiceCopiesFailure(e) ==
  LET invoice == e.data.object
  IN  [payment_id |-> Get(invoice, "id"),
       customer_email |-> OrElse(Get(invoice, "customer_email"), "Unknown"),
       amount |-> Get(invoice, "amount_due"),
       currency |-> Get(invoice, "currency"),
       failure_code |->
         OrElse(Get(invoice, "failure_code"), "invoice_payment_failed"),
       failure_message |-> "Invoice payment failed",
       failed_at |-> FailedAt(e)]

\* The record made of an invoice.payment_failed event.
FromInvoice(e) ==
  LET invoice == e.data.object
  IN  [payment_id |-> Get(invoice, "id"),
       customer_email |-> OrElse(Get(invoice, "customer_email"), "Unknown"),
       amount |-> Get(invoice, "amount_due"),
       currency |-> Get(invoice, "currency"),
       failure_code |-> "invoice_payment_failed",
       failure_message |-> "Invoice payment failed",
       failed_at |-> FailedAt(e)]

\* A slip: the billing details are not consulted.
FromChargeNoFallback(e) ==
  LET charge == e.data.object
  IN  [payment_id |-> Get(charge, "id"),
       customer_email |-> OrElse(Get(charge, "receipt_email"), "Unknown"),
       amount |-> Get(charge, "amount"),
       currency |-> Get(charge, "currency"),
       failure_code |-> Get(charge, "failure_code"),
       failure_message |-> Get(charge, "failure_message"),
       failed_at |-> FailedAt(e)]

\* The record made of a charge.failed event.
FromCharge(e) ==
  LET charge == e.data.object
  IN  [payment_id |-> Get(charge, "id"),
       customer_email |->
         OrElse(Get(charge, "receipt_email"),
                OrElse(OptGet(charge, "billing_details", "email"), "Unknown")),
       amount |-> Get(charge, "amount"),
       currency |-> Get(charge, "currency"),
       failure_code |-> Get(charge, "failure_code"),
       failure_message |-> Get(charge, "failure_message"),
       failed_at |-> FailedAt(e)]

\* The if / else-if chain at the head of processFailedPayment.
Normalize(e) ==
  IF e.type = "payment_intent.payment_failed" THEN FromPaymentIntent(e)
  ELSE IF e.type = "invoice.payment_failed" THEN FromInvoice(e)
  ELSE IF e.type = "charge.failed" THEN FromCharge(e)
  ELSE EmptyRecord

\* The synthetic record of POST /test, built at time t.
TestData(t) ==
  [payment_id |-> "test_" \o ToString(t),
   customer_email |-> "test@example.com",
   amount |-> 2500,
   currency |-> "usd",
   failure_code |-> "card_declined",
   failure_message |-> "Your card was declined.",
   failed_at |-> ToISOString(t)]

NoData == [payment_id |-> "none"]

\* -------------------------------------------------------- rendering

\* `${v}` in a template literal.
Str(v) ==
  IF v = Undefined THEN "undefined" ELSE IF v = Null THEN "null" ELSE v

\* String.prototype.toUpperCase on the currency codes in use.
ToUpperCase(s) ==
  CASE s = "usd" -> "USD"
    [] s = "eur" -> "EUR"
    [] OTHER -> s

\* (amount / 100).toFixed(2) for an amount in minor units.
ToFixed2(amount) ==
  ToString(amount \div 100) \o "." \o
  (IF amount % 100 < 10 THEN "0" ELSE "") \o ToString(amount % 100)

\* paymentData.currency.toUpperCase() throws a TypeError when the record has
\* no currency; both sinks evaluate it inside their try block.
RenderThrows(pd) == pd.currency = Undefined

\* The subject and the body lines sendGmailAlert builds, and the message it
\* hands to gmail.users.messages.send.
EmailMessage(pd) ==
  [userId |-> "me",
   to |-> "admin@example.com",
   subject |-> "Payment Failed Alert - " \o Str(pd.customer_email),
   body |->
     <<"- Payment ID: " \o Str(pd.payment_id),
       "- Customer: " \o Str(pd.customer_email),
       "- Amount: $" \o ToFixed2(pd.amount) \o " " \o ToUpperCase(pd.currency),
       "- Failure Code: " \o Str(pd.failure_code),
       "- Failure Message: " \o Str(pd.failure_message),
       "- Date: " \o Str(pd.failed_at)>>]

\* The fields addToAirtable hands to table.create at time t.  Amount is
\* paymentData.amount / 100, kept as the fraction amount over 100.
AirtableFields(pd, t) ==
  [PaymentID |-> pd.payment_id,
   CustomerEmail |-> OrElse(pd.customer_email, "Unknown"),
   Amount |-> <<pd.amount, 100>>,
   Currency |-> ToUpperCase(pd.currency),
   FailureCode |-> OrElse(pd.failure_code, "Unknown"),
   FailureMessage |-> OrElse(pd.failure_message, "Unknown"),
   FailedAt |-> pd.failed_at,
   Status |-> "New",
   CreatedAt |-> ToISOString(t)]

NoMail == [userId |-> "none"]
NoRow == [Status |-> "none"]

\* ---------------------------------------------------- initial states

\* No request is in flight and `past` entries have been appended to the log.
InitAfter(past) ==
  /\ logs = PastLog(past)
  /\ history = PastHistory(past)
  /\ now = past
  /\ listening = (past > 0)
  /\ snapshot = <<>>
  /\ pc = [r \in Reqs |-> "idle"]
  /\ route = [r \in Reqs |-> "none"]
  /\ payload = [r \in Reqs |-> "none"]
  /\ event = [r \in Reqs |-> NoEvent]
  /\ paymentData = [r \in Reqs |-> NoData]
  /\ err = [r \in Reqs |-> ""]
  /\ returned = [r \in Reqs |-> ""]
  /\ response = [r \in Reqs |-> <<>>]
  /\ calls = [r \in Reqs |-> <<>>]
  /\ mail = [r \in Reqs |-> NoMail]
  /\ row = [r \in Reqs |-> NoRow]
  /\ appended = [r \in Reqs |-> <<>>]
  /\ given = [r \in Reqs |-> <<>>]

\* The process right after construction: nothing logged, not yet listening.
Init == InitAfter(0)

\* The running process between requests: after its start-up, or after
\* PastAppends appends by requests that have been answered.
InitRunning == \E past \in PastCounts : InitAfter(past)

\* ------------------------------------------------- one turn's effects

\* What request r's handler has done so far in the current turn: the calls
\* it made, the messages it logged, the responses it sent, and its locals.
\* pd is the one object that paymentData (testData in POST /test) refers
\* to; the sinks are handed that object, not a copy.
Turn(r) ==
  [calls |-> <<>>, msgs |-> <<>>, response |-> <<>>, given |-> <<>>,
   pc |-> pc[r], pd |-> paymentData[r], err |-> err[r],
   returned |-> returned[r], mail |-> mail[r], row |-> row[r]]

\* The request a suspended handler is serving.
Serving(r) == [route |-> route[r], type |-> event[r].type]

\* A sink is called with the record: what it receives is the object as it is
\* at the call.
Handed(c, name) ==
  [c EXCEPT !.calls = Append(@, name), !.given = Append(@, c.pd)]

Call(c, names) == [c EXCEPT !.calls = @ \o names]
\* addLog(message)
Log(c, message) ==
  [c EXCEPT !.msgs = Append(@, message), !.calls = Append(@, "addLog")]
Throw(c, message) == [c EXCEPT !.err = message]
Await(c, label) == [c EXCEPT !.pc = label]

\* res.status(status).send(body) or res.json(body), the handler's last act.
Reply(c, status, body) ==
  [c EXCEPT !.response = Append(@, [status |-> status, body |-> body]),
            !.calls = Append(@, "respond"),
            !.pc = "done"]

\* The clock when the handler has logged c.msgs in this turn.
Clock(c) == now + Len(c.msgs)

\* A slip: the handler keeps the array it read at its last append and
\* appends to that one, dropping what other requests appended since.
CommitLosesUpdates(r, c) ==
  LET mine == appended[r]
      stale == IF mine = <<>> THEN logs
               ELSE SliceLast(SubSeq(history, 1, mine[Len(mine)].timestamp + 1),
                              LogBound)
  IN  /\ calls' = [calls EXCEPT ![r] = @ \o c.calls]
      /\ logs' = AddAllTo(stale, now, c.msgs)
      /\ history' = history \o Entries(now, c.msgs)
      /\ appended' = [appended EXCEPT ![r] = @ \o Entries(now, c.msgs)]
      /\ now' = now + Len(c.msgs)
      /\ response' = [response EXCEPT ![r] = @ \o c.response]
      /\ pc' = [pc EXCEPT ![r] = c.pc]
      /\ err' = [err EXCEPT ![r] = c.err]
      /\ returned' = [returned EXCEPT ![r] = c.returned]
      /\ mail' = [mail EXCEPT ![r] = c.mail]
      /\ row' = [row EXCEPT ![r] = c.row]
      /\ paymentData' = [paymentData EXCEPT ![r] = c.pd]
      /\ given' = [given EXCEPT ![r] = @ \o c.given]
      /\ snapshot' = <<>>

\* The turn of request r ends: its effects reach the state.
Commit(r, c) ==
  /\ calls' = [calls EXCEPT ![r] = @ \o c.calls]
  /\ logs' = AddAllTo(logs, now, c.msgs)
  /\ history' = history \o Entries(now, c.msgs)
  /\ appended' = [appended EXCEPT ![r] = @ \o Entries(now, c.msgs)]
  /\ now' = now + Len(c.msgs)
  /\ response' = [response EXCEPT ![r] = @ \o c.response]
  /\ pc' = [pc EXCEPT ![r] = c.pc]
  /\ err' = [err EXCEPT ![r] = c.err]
  /\ returned' = [returned EXCEPT ![r] = c.returned]
  /\ mail' = [mail EXCEPT ![r] = c.mail]
  /\ row' = [row EXCEPT ![r] = c.row]
  /\ paymentData' = [paymentData EXCEPT ![r] = c.pd]
  /\ given' = [given EXCEPT ![r] = @ \o c.given]
  /\ snapshot' = <<>>

\* ------------------------------------------------------ the handlers

\* A slip: the catch answers 500 and does not return, so the route goes on
\* to res.json.
WebhookRouteEndNoReturn(c, q) ==
  IF c.err = ""
  THEN Reply(Log(c, WebhookProcessedMsg(q.type)), 200, "received")
  ELSE Reply(Reply(Log(c, WebhookErrorMsg(c.err)), 500, "Internal Server Error"),
             200, "received")

\* The webhook route after await processFailedPayment(event): the success
\* entry and { received: true }, or the catch, which logs and answers 500.
WebhookRouteEnd(c, q) ==
  IF c.err = ""
  THEN Reply(Log(c, WebhookProcessedMsg(q.type)), 200, "received")
  ELSE Reply(Log(c, WebhookErrorMsg(c.err)), 500, "Internal Server Error")

\* A slip: the catch of processFailedPayment throws the error again without
\* logging it.
ProcessFailedPaymentEndQuiet(c, q) ==
  IF c.err = ""
  THEN Log(c, ProcessedMsg(c.pd.payment_id))
  ELSE c

\* processFailedPayment after await addToAirtable(paymentData): the success
\* entry, or the catch, which logs the error and throws it again.
ProcessFailedPaymentEnd(c, q) ==
  IF c.err = ""
  THEN Log(c, ProcessedMsg(c.pd.payment_id))
  ELSE Log(c, ProcessErrorMsg(c.err))

\* A slip: the catch of POST /test is missing and the route always answers
\* with the test data.
TestRouteEndAlwaysOk(c, q) ==
  Reply(c, 200, [success |-> TRUE, message |-> "Test completed",
                 testData |-> c.pd])

\* POST /test after await addToAirtable(testData): the test data, or the
\* catch, which answers 500 with the error's message.
TestRouteEnd(c, q) ==
  IF c.err = ""
  THEN Reply(c, 200, [success |-> TRUE, message |-> "Test completed",
                      testData |-> c.pd])
  ELSE Reply(c, 500, [success |-> FALSE, error |-> c.err])

\* The caller of addToAirtable resumes.
AfterAddToAirtable(c, q) ==
  IF q.route = "webhook"
  THEN WebhookRouteEnd(ProcessFailedPaymentEnd(c, q), q)
  ELSE TestRouteEnd(c, q)

\* The id Airtable gives the record it creates.
RecordId(t) == "rec" \o ToString(t)

\* A slip: the catch of addToAirtable logs the error and does not rethrow.
CreateRejectedSwallowed(c) ==
  Log(Call(c, <<"create.rejected">>), AirtableErrorMsg(AirtableError))

\* table.create threw: the catch logs the error and throws it again.
CreateRejected(c) ==
  Throw(Log(Call(c, <<"create.rejected">>), AirtableErrorMsg(AirtableError)),
        AirtableError)

\* table.create returned: the record's id is logged and record[0] returned.
CreateResolved(c) ==
  [Log(Call(c, <<"create.resolved">>), AirtableAddedMsg(RecordId(Clock(c))))
     EXCEPT !.returned = RecordId(Clock(c))]

\* addToAirtable(paymentData) up to its await: the fields are rendered and
\* handed to table.create, or rendering throws and the catch logs and
\* rethrows, which resumes the caller at once.
AddToAirtable(c, q) ==
  IF RenderThrows(c.pd)
  THEN AfterAddToAirtable(
         Throw(Log(Handed(c, "addToAirtable"), AirtableErrorMsg(TypeErrorMsg)),
               TypeErrorMsg), q)
  ELSE Await([Call(Handed(c, "addToAirtable"), <<"table.create">>)
                EXCEPT !.row = AirtableFields(c.pd, Clock(c))],
             "awaitStore")

\* A slip: the catch of sendGmailAlert logs the error and throws it again,
\* so the caller never reaches addToAirtable.
GmailRejectedRethrows(c) ==
  Throw(Log(Call(c, <<"gmail.rejected">>), GmailErrorMsg(GmailError)),
        GmailError)

\* A slip: the catch of sendGmailAlert sends the message once more.
GmailRejectedRetries(c) ==
  Call(Log(Call(c, <<"gmail.rejected">>), GmailErrorMsg(GmailError)),
       <<"gmail.send">>)

\* A slip: the catch of sendGmailAlert is empty.
GmailRejectedSilently(c) == Call(c, <<"gmail.rejected">>)

\* gmail.users.messages.send threw: the catch logs the error and nothing is
\* thrown to the caller.
GmailRejected(c) ==
  Log(Call(c, <<"gmail.rejected">>), GmailErrorMsg(GmailError))

\* gmail.users.messages.send returned: the delivery is logged.
GmailResolved(c, q) ==
  Log(Call(c, <<"gmail.resolved">>), GmailSentMsg(c.pd.payment_id))

\* await sendGmailAlert(paymentData) resumes inside its caller's try: on to
\* await addToAirtable(paymentData), or to the catch had an error come out.
AfterSendGmailAlert(c, q) ==
  IF c.err = "" THEN AddToAirtable(c, q) ELSE AfterAddToAirtable(c, q)

\* A slip: the promise of gmail.users.messages.send is not awaited, so
\* sendGmailAlert returns while the send is still in flight.
SendNotAwaited(c, q) ==
  IF RenderThrows(c.pd)
  THEN AfterSendGmailAlert(
         Log(Handed(c, "sendGmailAlert"), GmailErrorMsg(TypeErrorMsg)), q)
  ELSE AfterSendGmailAlert(
         [Call(Handed(c, "sendGmailAlert"), <<"gmail.send">>)
            EXCEPT !.mail = EmailMessage(c.pd)], q)

\* A slip: the currency is upper-cased in the record itself before the
\* message is rendered.
SendGmailAlertUppercases(c, q) ==
  IF RenderThrows(c.pd)
  THEN AfterSendGmailAlert(
         Log(Handed(c, "sendGmailAlert"), GmailErrorMsg(TypeErrorMsg)), q)
  ELSE Await([Call(Handed(c, "sendGmailAlert"), <<"gmail.send">>)
                EXCEPT !.pd.currency = ToUpperCase(@),
                       !.mail = EmailMessage(c.pd)],
             "awaitGmail")

\* sendGmailAlert(paymentData) up to its await: the message is rendered and
\* handed to gmail.users.messages.send, or rendering throws, the catch logs
\* it and the caller resumes at once.
SendGmailAlert(c, q) ==
  IF RenderThrows(c.pd)
  THEN AfterSendGmailAlert(
         Log(Handed(c, "sendGmailAlert"), GmailErrorMsg(TypeErrorMsg)), q)
  ELSE Await([Call(Handed(c, "sendGmailAlert"), <<"gmail.send">>)
                EXCEPT !.mail = EmailMessage(c.pd)],
             "awaitGmail")

\* A slip: the catch answers 500, the status of a processing error.
VerifyFailedAnswers500(c) ==
  Reply(Log(Call(c, <<"constructEvent">>), SigFailMsg(VerifyError)),
        500, "Webhook Error: " \o VerifyError)

\* constructEvent threw: the catch logs the error and answers 400.
VerifyFailed(c) ==
  Reply(Log(Call(c, <<"constructEvent">>), SigFailMsg(VerifyError)),
        400, "Webhook Error: " \o VerifyError)

\* The webhook route once constructEvent has returned event e: the type
\* filter, then processFailedPayment(e) up to its first await.
Verified(c, e) ==
  IF Recognized(e.type)
  THEN SendGmailAlert([Call(c, <<"constructEvent", "normalize">>)
                         EXCEPT !.pd = Normalize(e)],
                      [route |-> "webhook", type |-> e.type])
  ELSE Reply(Call(c, <<"constructEvent">>), 200, "received")

\* ---------------------------------------------------------- actions

\* Slots are taken in order: slot r is free to take once slot r - 1 is taken.
Free(r) ==
  /\ listening
  /\ pc[r] = "idle"
  /\ r > 1 => pc[r - 1] # "idle"

\* app.listen's callback.
Listen ==
  /\ ~listening
  /\ listening' = TRUE
  /\ logs' = AddLogTo(logs, now, StartedMsg)
  /\ history' = Append(history, LogEntry(now, StartedMsg))
  /\ now' = now + 1
  /\ snapshot' = <<>>
  /\ UNCHANGED <<pc, route, payload, event, paymentData, err, returned,
                 response, calls, mail, row, appended, given>>

\* POST /webhook/stripe: the middleware, constructEvent, and the route up to
\* its answer or to the await of gmail.users.messages.send.  events: the
\* events the verifier may return.
WebhookRequestFrom(r, events) ==
  /\ Free(r)
  /\ \E ct \in ContentTypes :
       LET q == Middleware(Incoming(ct)) IN
       \E ok \in VerifierOutcomes(q.body) :
         /\ route' = [route EXCEPT ![r] = "webhook"]
         /\ payload' = [payload EXCEPT ![r] = q.body]
         /\ IF ok
            THEN \E e \in events :
                   /\ event' = [event EXCEPT ![r] = e]
                   /\ Commit(r, Verified(Turn(r), e))
            ELSE /\ UNCHANGED event
                 /\ Commit(r, VerifyFailed(Turn(r)))
  /\ UNCHANGED listening

\* A webhook of the pipeline.
WebhookRequest(r) == WebhookRequestFrom(r, Events)

\* A webhook that carries an event of any shape.
WebhookOfAnyShape(r) == WebhookRequestFrom(r, AllEvents)

\* POST /test up to the await of gmail.users.messages.send.
TestRequest(r) ==
  /\ Free(r)
  /\ route' = [route EXCEPT ![r] = "test"]
  /\ Commit(r, SendGmailAlert([Turn(r) EXCEPT !.pd = TestData(now)],
                              [route |-> "test", type |-> "none"]))
  /\ UNCHANGED <<listening, payload, event>>

\* gmail.users.messages.send settles: sendGmailAlert runs to its end and its
\* caller goes on to addToAirtable.
GmailSettles(r) ==
  /\ pc[r] = "awaitGmail"
  /\ \E ok \in BOOLEAN :
       Commit(r, AfterSendGmailAlert(
                   IF ok THEN GmailResolved(Turn(r), Serving(r))
                         ELSE GmailRejected(Turn(r)),
                   Serving(r)))
  /\ UNCHANGED <<listening, route, payload, event>>

\* table.create settles: addToAirtable runs to its end, and so do its
\* callers, up to the answer.
AirtableSettles(r) ==
  /\ pc[r] = "awaitStore"
  /\ \E ok \in BOOLEAN :
       Commit(r, AfterAddToAirtable(
                   IF ok THEN CreateResolved(Turn(r))
                         ELSE CreateRejected(Turn(r)),
                   Serving(r)))
  /\ UNCHANGED <<listening, route, payload, event>>

\* A slip: slice(0, 20), the oldest twenty entries.
LogsBodyOldest(l) ==
  IF Len(l) <= SnapshotSize THEN l ELSE SubSeq(l, 1, SnapshotSize)

\* The logs array of GET /logs: logs.slice(-20).
LogsBody(l) == SliceLast(l, SnapshotSize)

\* GET /logs.
LogsRequest ==
  /\ listening
  /\ snapshot' = LogsBody(logs)
  /\ UNCHANGED <<logs, now, listening, pc, route, payload, event, paymentData,
                 err, returned, response, calls, mail, row, appended, given,
                 history>>

\* A turn of one of the requests that run the pipeline.
Requests ==
  \E r \in Reqs :
    \/ WebhookRequest(r)
    \/ TestRequest(r)
    \/ GmailSettles(r)
    \/ AirtableSettles(r)

Next == Listen \/ Requests

\* The process from its construction on.  GET /logs changes nothing in the
\* process and is left to SpecRunning, where its answer is observed.
Spec == Init /\ [][Next]_vars

NextRunning == LogsRequest \/ Requests

\* The running process, with a short log or with a log about to overflow,
\* serving GET /logs between the turns of the other requests.
SpecRunning == InitRunning /\ [][NextRunning]_vars

\* Webhooks that carry events of every shape, at most NumDeliveries of them.
Deliver ==
  \E r \in Deliveries :
    \/ WebhookOfAnyShape(r)
    \/ GmailSettles(r)
    \/ AirtableSettles(r)

\* The running process receiving events of every shape: what the Normalizer
\* makes of each and what the two sinks are handed.
SpecEvents == InitRunning /\ [][Deliver]_vars

\* The process from its construction on, serving at most NumDeliveries
\* requests: POST /test, or a webhook with an event of any type.
Serve ==
  \/ Listen
  \/ \E r \in Deliveries :
       \/ WebhookRequestFrom(r, Events \cup PiEvents \cup InvoiceEvents)
       \/ TestRequest(r)
       \/ GmailSettles(r)
       \/ AirtableSettles(r)

\* Every call to an external collaborator eventually returns or throws: a
\* handler that awaits one is eventually resumed.
Settling ==
  \A r \in Deliveries : WF_vars(GmailSettles(r)) /\ WF_vars(AirtableSettles(r))

\* The process with collaborators that always settle.
SpecFair == Init /\ [][Serve]_vars /\ Settling

\* ------------------------------------------------------ vocabulary

Has(s, x) == \E i \in 1..Len(s) : s[i] = x
Count(s, x) == Cardinality({i \in 1..Len(s) : s[i] = x})
Messages(entries) == {entries[i].message : i \in 1..Len(entries)}
Min(a, b) == IF a <= b THEN a ELSE b

\* The three event types the specification names.
SpecTypes ==
  {"payment_intent.payment_failed", "invoice.payment_failed", "charge.failed"}

\* Request r is a webhook whose signature verification failed.
SigFailed(r) == route[r] = "webhook" /\ event[r].type = "none"
\* Request r is a verified webhook.
IsVerified(r) == route[r] = "webhook" /\ event[r].type # "none"

\* The Dispatcher of r failed: the email collaborator threw, or the record
\* could not be rendered and the collaborator was never called.
EmailThrew(r) == Has(calls[r], "gmail.rejected")
MailRenderFailed(r) ==
  Has(calls[r], "sendGmailAlert") /\ ~Has(calls[r], "gmail.send")
DispatcherFailed(r) == EmailThrew(r) \/ MailRenderFailed(r)

\* The Recorder of r failed: the store threw, or the row could not be
\* rendered; it succeeded when the store returned.
StoreThrew(r) == Has(calls[r], "create.rejected")
RowRenderFailed(r) ==
  Has(calls[r], "addToAirtable") /\ ~Has(calls[r], "table.create")
RecorderFailed(r) == StoreThrew(r) \/ RowRenderFailed(r)
RecorderSucceeded(r) == Has(calls[r], "create.resolved")

Statuses(r) == [i \in 1..Len(response[r]) |-> response[r][i].status]

\* ----------------------------------------------------------- claims

\* C1: a webhook request whose signature verification fails never invokes
\* the Normalizer, the Dispatcher or the Recorder, is answered 400, and
\* appends one audit entry only, the verification error.
C1_InvalidSignatureStopsEverything ==
  \A r \in Reqs :
    SigFailed(r) =>
      /\ ~Has(calls[r], "normalize")
      /\ ~Has(calls[r], "sendGmailAlert")
      /\ ~Has(calls[r], "gmail.send")
      /\ ~Has(calls[r], "addToAirtable")
      /\ ~Has(calls[r], "table.create")
      /\ Statuses(r) = <<400>>
      /\ Len(appended[r]) = 1
      /\ appended[r][1].message = SigFailMsg(VerifyError)
      /\ paymentData[r] = NoData

\* C1's case: a rejected webhook has been answered while another request is
\* in flight.
C1_Witness ==
  \E r, o \in Reqs :
    /\ SigFailed(r) /\ pc[r] = "done"
    /\ pc[o] \in {"awaitGmail", "awaitStore"}

\* C2: for a webhook that arrives with a JSON body, constructEvent is handed
\* the unparsed raw request body: no middleware has parsed it before.
C2_VerifierGetsRawBody ==
  \A r \in Reqs :
    (route[r] = "webhook" /\ payload[r] # "empty") => payload[r] = "raw"

\* C3: a failure of the Dispatcher never reaches its caller: the Recorder is
\* still invoked, the Recorder's result is what the store call alone makes
\* it (its return value whenever the store returns), and a verified
\* recognized webhook whose Recorder succeeds is answered 200.
C3_DispatcherFailureContained ==
  \A r \in Reqs :
    /\ DispatcherFailed(r) =>
         /\ Has(calls[r], "addToAirtable")
         /\ RecorderSucceeded(r) => returned[r] # "" /\ err[r] = ""
         /\ err[r] # "" => RecorderFailed(r)
    /\ (IsVerified(r) /\ event[r].type \in SpecTypes /\ RecorderSucceeded(r)) =>
         /\ Statuses(r) = <<200>>
         /\ response[r][1].body = "received"

\* C3's case: the email collaborator threw, the store returned, and the
\* webhook was answered 200.
C3_Witness ==
  \E r \in Reqs :
    /\ IsVerified(r) /\ EmailThrew(r) /\ RecorderSucceeded(r)
    /\ returned[r] # "" /\ Statuses(r) = <<200>>

\* C4: a verified webhook of a recognized type is answered 500 when the
\* Recorder fails, whatever the Dispatcher did, and 200 only when the
\* Recorder succeeded.
C4_RecorderFailureIs500 ==
  \A r \in Reqs :
    (IsVerified(r) /\ event[r].type \in SpecTypes) =>
      /\ RecorderFailed(r) => Statuses(r) = <<500>>
      /\ Has(Statuses(r), 200) => RecorderSucceeded(r) /\ returned[r] # ""
      /\ pc[r] = "done" => Statuses(r) \in {<<200>>, <<500>>}

\* C4's case: the Dispatcher succeeded, the store threw, the answer is 500.
C4_Witness ==
  \E r \in Reqs :
    /\ IsVerified(r) /\ Has(calls[r], "gmail.resolved") /\ StoreThrew(r)
    /\ Statuses(r) = <<500>>

\* Every "gmail.send" before position i of s has settled before i.
SendsSettledBefore(s, i) ==
  \A k \in 1..(i - 1) :
    s[k] = "gmail.send" =>
      \E m \in (k + 1)..(i - 1) : s[m] \in {"gmail.resolved", "gmail.rejected"}

\* C5: within a request the steps run in the order Normalizer, Dispatcher,
\* Recorder, and the Recorder (its external call included) never begins
\* before the Dispatcher's send has settled, whatever other requests do.
C5_NormalizeDispatchRecordInOrder ==
  \A r \in Reqs :
    LET s == calls[r] IN
    \A i \in 1..Len(s) :
      /\ s[i] = "sendGmailAlert" =>
           /\ route[r] = "webhook" => \E j \in 1..(i - 1) : s[j] = "normalize"
           /\ \A j \in 1..(i - 1) : s[j] \notin {"addToAirtable", "table.create"}
      /\ s[i] = "normalize" =>
           \A j \in 1..(i - 1) : s[j] \notin {"sendGmailAlert", "addToAirtable"}
      /\ s[i] \in {"addToAirtable", "table.create"} =>
           /\ \E j \in 1..(i - 1) : s[j] = "sendGmailAlert"
           /\ SendsSettledBefore(s, i)
      /\ s[i] = "table.create" => i > 1 /\ s[i - 1] = "addToAirtable"

\* C5's case: one request waits for the store while another still waits for
\* the email collaborator.
C5_Witness ==
  \E r, o \in Reqs :
    /\ pc[r] = "awaitStore" /\ Has(calls[r], "table.create")
    /\ pc[o] = "awaitGmail"
    /\ route[r] = "webhook" /\ route[o] = "test"

\* C6: the audit log never holds more than 50 entries, and they are the most
\* recent min(50, appends so far) entries, in the order they were appended.
C6_LogKeepsLast50 ==
  /\ Len(logs) <= 50
  /\ Len(logs) = Min(50, Len(history))
  /\ \A i \in 1..Len(logs) : logs[i] = history[Len(history) - Len(logs) + i]

\* C6's case: 55 entries have been appended, by requests that overlapped.
C6_Witness ==
  /\ Len(history) = 55
  /\ \E r, o \in Reqs : r # o /\ Len(appended[r]) > 1 /\ Len(appended[o]) > 1
  /\ logs[1] = history[6]

\* The most recent min(n, Len(s)) elements of s, in order.
MostRecent(s, n) ==
  [i \in 1..Min(n, Len(s)) |-> s[Len(s) - Min(n, Len(s)) + i]]

\* C7: GET /logs answers with the most recent min(20, log length) entries in
\* insertion order (after 55 appends: the 36th to the 55th) and leaves the
\* audit log as it was.
C7_LogsReturnsLast20 ==
  [][snapshot' # <<>> =>
       /\ snapshot' = MostRecent(logs, 20)
       /\ Len(history) = 55 => snapshot' = SubSeq(history, 36, 55)
       /\ logs' = logs
       /\ history' = history]_vars

\* C7's case: GET /logs has been served after 55 appends.
C7_Witness ==
  /\ Len(history) = 55
  /\ Len(snapshot) = 20
  /\ snapshot[1] = history[36]
  /\ snapshot[20] = history[55]

\* C8: a verified webhook whose type is none of the three recognized ones
\* never invokes the Normalizer, the Dispatcher or the Recorder, and is
\* answered 200 { received: true }.
C8_OtherTypesAcknowledged ==
  \A r \in Reqs :
    (IsVerified(r) /\ event[r].type \notin SpecTypes) =>
      /\ ~Has(calls[r], "normalize")
      /\ ~Has(calls[r], "sendGmailAlert")
      /\ ~Has(calls[r], "gmail.send")
      /\ ~Has(calls[r], "addToAirtable")
      /\ ~Has(calls[r], "table.create")
      /\ Statuses(r) = <<200>>
      /\ response[r][1].body = "received"

\* C8's case: a verified customer.created webhook has been answered.
C8_Witness ==
  \E r \in Reqs :
    IsVerified(r) /\ event[r].type = "customer.created" /\ pc[r] = "done"

\* Nothing is logged by r's handler once it has answered.
AnsweredLast(r) ==
  \A i \in 1..Len(calls[r]) : calls[r][i] = "respond" => i = Len(calls[r])

\* C9: every signature-verification failure, Dispatcher failure and Recorder
\* failure has an audit entry naming the error, appended before the
\* request is answered.
C9_EveryErrorLogged ==
  \A r \in Reqs :
    /\ SigFailed(r) => SigFailMsg(VerifyError) \in Messages(appended[r])
    /\ EmailThrew(r) => GmailErrorMsg(GmailError) \in Messages(appended[r])
    /\ MailRenderFailed(r) => GmailErrorMsg(TypeErrorMsg) \in Messages(appended[r])
    /\ StoreThrew(r) => AirtableErrorMsg(AirtableError) \in Messages(appended[r])
    /\ RowRenderFailed(r) => AirtableErrorMsg(TypeErrorMsg) \in Messages(appended[r])
    /\ AnsweredLast(r)
    /\ Count(calls[r], "addLog") = Len(appended[r])

\* C9's case: on /test the email collaborator and the store both threw, and
\* the request has been answered.
C9_Witness ==
  \E r \in Reqs :
    /\ route[r] = "test" /\ EmailThrew(r) /\ StoreThrew(r)
    /\ Statuses(r) = <<500>>

\* C10: no retry: a request calls the email collaborator at most once and
\* the store at most once, whatever came back.
C10_NoRetry ==
  \A r \in Reqs :
    /\ Count(calls[r], "gmail.send") <= 1
    /\ Count(calls[r], "table.create") <= 1
    /\ Count(calls[r], "sendGmailAlert") <= 1
    /\ Count(calls[r], "addToAirtable") <= 1

\* C10's case: both collaborators threw and the request is over.
C10_Witness ==
  \E r \in Reqs :
    /\ EmailThrew(r) /\ StoreThrew(r) /\ pc[r] = "done"
    /\ Count(calls[r], "gmail.send") = 1
    /\ Count(calls[r], "table.create") = 1

\* The position of the first x in s, 0 when there is none.
IndexOf(s, x) ==
  IF Has(s, x) THEN CHOOSE i \in 1..Len(s) : s[i] = x /\ ~Has(SubSeq(s, 1, i - 1), x)
  ELSE 0

\* C11: POST /test never invokes signature verification or the type filter;
\* it calls the Dispatcher once and then the Recorder once, both on a
\* synthetic record whose payment_id starts with "test_"; it answers 200
\* { success: true, testData } when the Recorder succeeds, whatever the
\* Dispatcher did, and 500 { success: false, error } when the Recorder fails.
C11_TestRunsSinksDirectly ==
  \A r \in Reqs :
    route[r] = "test" =>
      /\ ~Has(calls[r], "constructEvent") /\ ~Has(calls[r], "normalize")
      /\ payload[r] = "none" /\ event[r] = NoEvent
      /\ Count(calls[r], "sendGmailAlert") = 1
      /\ Count(calls[r], "addToAirtable") <= 1
      /\ Has(calls[r], "addToAirtable") =>
           IndexOf(calls[r], "sendGmailAlert") < IndexOf(calls[r], "addToAirtable")
      /\ pc[r] = "done" => Count(calls[r], "addToAirtable") = 1
      /\ SubSeq(paymentData[r].payment_id, 1, 5) = "test_"
      /\ \A i \in 1..Len(given[r]) : given[r][i] = paymentData[r]
      /\ RecorderSucceeded(r) =>
           /\ Statuses(r) = <<200>>
           /\ response[r][1].body =
                [success |-> TRUE, message |-> "Test completed",
                 testData |-> paymentData[r]]
      /\ RecorderFailed(r) =>
           /\ Statuses(r) = <<500>>
           /\ response[r][1].body = [success |-> FALSE, error |-> AirtableError]
      /\ pc[r] = "done" => RecorderSucceeded(r) \/ RecorderFailed(r)

\* C11's case: on /test the email collaborator threw, the store returned and
\* the answer is 200 with the test data.
C11_Witness ==
  \E r \in Reqs :
    /\ route[r] = "test" /\ EmailThrew(r) /\ RecorderSucceeded(r)
    /\ Statuses(r) = <<200>> /\ response[r][1].body.success

\* Request r is a verified webhook of one of the three recognized types.
IsRecognized(r) == IsVerified(r) /\ event[r].type \in SpecTypes

\* The amount field of the event's object: amount_due for an invoice, amount
\* for a payment intent and for a charge.
SourceAmount(e) ==
  IF e.type = "invoice.payment_failed" THEN e.data.object.amount_due
  ELSE e.data.object.amount

\* C12: for each of the three recognized types normalization never raises
\* and yields a complete record whose amount is the source amount field
\* verbatim, in minor units; major units appear only in what the sinks
\* render: the amount line of the mail and the Amount column of the row.
C12_AmountVerbatim ==
  \A r \in Reqs :
    IsRecognized(r) =>
      /\ DOMAIN paymentData[r] = DOMAIN EmptyRecord
      /\ Has(calls[r], "normalize") /\ Has(calls[r], "sendGmailAlert")
      /\ ProcessErrorMsg(TypeErrorMsg) \notin Messages(appended[r])
      /\ paymentData[r].amount = SourceAmount(event[r])
      /\ \A i \in 1..Len(given[r]) : given[r][i].amount = SourceAmount(event[r])
      /\ mail[r] # NoMail =>
           mail[r].body[3] =
             "- Amount: $" \o ToFixed2(SourceAmount(event[r])) \o " "
               \o ToUpperCase(event[r].data.object.currency)
      /\ row[r] # NoRow => row[r].Amount = <<SourceAmount(event[r]), 100>>

\* C12's case: an invoice of 5 minor units has reached both sinks, which
\* rendered 0.05 and 5 / 100; a payment intent and a charge are normalized
\* as well.
C12_Witness ==
  \E r \in Reqs :
    /\ IsRecognized(r) /\ event[r].type = "invoice.payment_failed"
    /\ paymentData[r].amount = 5
    /\ mail[r] # NoMail /\ row[r] # NoRow
    /\ mail[r].body[3] = "- Amount: $0.05 USD"
    /\ row[r].Amount = <<5, 100>>

\* C13: whatever fields an invoice.payment_failed event carries, its record
\* has failure_code "invoice_payment_failed" and failure_message "Invoice
\* payment failed", and so has the record each sink is handed.
C13_InvoiceFailureLiterals ==
  \A r \in Reqs :
    (IsVerified(r) /\ event[r].type = "invoice.payment_failed") =>
      /\ paymentData[r].failure_code = "invoice_payment_failed"
      /\ paymentData[r].failure_message = "Invoice payment failed"
      /\ \A i \in 1..Len(given[r]) :
           /\ given[r][i].failure_code = "invoice_payment_failed"
           /\ given[r][i].failure_message = "Invoice payment failed"

\* C13's case: the invoice itself names another failure code.
C13_Witness ==
  \E r \in Reqs :
    /\ IsVerified(r) /\ event[r].type = "invoice.payment_failed"
    /\ Get(event[r].data.object, "failure_code") = "card_declined"
    /\ paymentData[r].failure_code = "invoice_payment_failed"
    /\ Len(given[r]) = 2

\* ISO-8601 of created seconds: the time the event says the payment failed.
EventTime(e) == ToISOString(e.created * 1000)

\* C14: the record's failed_at is a function of event.created alone,
\* created * 1000 as ISO-8601, whatever the clock shows when the event is
\* processed and however long the sinks take; the same value is in the
\* record each sink is handed, in the mail's date line and in the row's
\* Failed At, and two requests with the same created agree on it.
C14_FailedAtFromEventOnly ==
  /\ \A r \in Reqs :
       IsRecognized(r) =>
         /\ paymentData[r].failed_at = EventTime(event[r])
         /\ \A i \in 1..Len(given[r]) : given[r][i].failed_at = EventTime(event[r])
         /\ mail[r] # NoMail => mail[r].body[6] = "- Date: " \o EventTime(event[r])
         /\ row[r] # NoRow => row[r].FailedAt = EventTime(event[r])
  /\ \A r, o \in Reqs :
       (IsRecognized(r) /\ IsRecognized(o) /\ event[r].created = event[o].created)
         => paymentData[r].failed_at = paymentData[o].failed_at

\* C14's case: an event created at second 5 is processed when the clock
\* shows more than PastAppends, and the row made later still carries the
\* event's time, next to a Created At that shows the clock.
C14_Witness ==
  \E r \in Reqs :
    /\ IsRecognized(r) /\ event[r].created = 5
    /\ now > PastAppends
    /\ row[r] # NoRow
    /\ row[r].FailedAt = "T5000Z"
    /\ row[r].CreatedAt # row[r].FailedAt

\* The property f of o holds a value: it is there, not null and not "".
Present(o, f) == f \in DOMAIN o /\ o[f] \notin {Null, ""}

\* The email address the specification names for event e.
SpecEmail(e) ==
  LET o == e.data.object IN
  CASE e.type = "charge.failed" ->
         IF Present(o, "receipt_email") THEN o.receipt_email
         ELSE IF /\ "billing_details" \in DOMAIN o
                 /\ o.billing_details # NullObject
                 /\ Present(o.billing_details, "email")
              THEN o.billing_details.email
              ELSE "Unknown"
    [] e.type = "payment_intent.payment_failed" ->
         IF Present(o, "receipt_email") THEN o.receipt_email ELSE "Unknown"
    [] e.type = "invoice.payment_failed" ->
         IF Present(o, "customer_email") THEN o.customer_email ELSE "Unknown"

\* C15: the record's customer_email is, for a charge, receipt_email when
\* present, else billing_details.email when present, else "Unknown"; for a
\* payment intent and an invoice, the receipt or customer email when
\* present and "Unknown" otherwise.
C15_CustomerEmailFallback ==
  \A r \in Reqs :
    IsRecognized(r) =>
      /\ paymentData[r].customer_email = SpecEmail(event[r])
      /\ mail[r] # NoMail =>
           mail[r].body[2] = "- Customer: " \o SpecEmail(event[r])
      /\ row[r] # NoRow => row[r].CustomerEmail = SpecEmail(event[r])

\* C15's case: a charge of 2500 usd without receipt_email whose billing
\* details carry a@b.com; the mail says $25.00 USD.
C15_Witness ==
  \E r \in Reqs :
    /\ IsRecognized(r) /\ event[r].type = "charge.failed"
    /\ event[r].data.object.receipt_email = Null
    /\ paymentData[r].customer_email = "a@b.com"
    /\ mail[r] # NoMail
    /\ mail[r].body[3] = "- Amount: $25.00 USD"

\* The record of r lacks the field f: it is undefined or null.
Lacks(r, f) == paymentData[r][f] \in {Undefined, Null}

\* C16: when the record's failure_code or failure_message is absent, both
\* sinks present "Unknown" for it: the row's Failure Code and Failure Message
\* columns, and the mail's failure code and failure message lines.
C16_UnknownInBothSinks ==
  \A r \in Reqs :
    IsRecognized(r) =>
      /\ (Lacks(r, "failure_code") /\ row[r] # NoRow) =>
           row[r].FailureCode = "Unknown"
      /\ (Lacks(r, "failure_message") /\ row[r] # NoRow) =>
           row[r].FailureMessage = "Unknown"
      /\ (Lacks(r, "failure_code") /\ mail[r] # NoMail) =>
           mail[r].body[4] = "- Failure Code: Unknown"
      /\ (Lacks(r, "failure_message") /\ mail[r] # NoMail) =>
           mail[r].body[5] = "- Failure Message: Unknown"

\* C17: the record is never modified once it is constructed: what the
\* Dispatcher was handed, what the Recorder was handed and what the handler
\* holds afterwards are the same record, whether the sinks succeed or fail;
\* its currency is as received and its amount is in minor units.
C17_RecordNeverModified ==
  \A r \in Reqs :
    given[r] # <<>> =>
      /\ \A i \in 1..Len(given[r]) : given[r][i] = paymentData[r]
      /\ IsRecognized(r) =>
           /\ paymentData[r] = Normalize(event[r])
           /\ paymentData[r].currency = Get(event[r].data.object, "currency")
           /\ paymentData[r].amount = SourceAmount(event[r])
      /\ route[r] = "test" =>
           /\ paymentData[r].currency = "usd"
           /\ paymentData[r].amount = 2500

\* C17's case: both sinks were handed the record of a charge and both
\* failed; the record still says usd while the row said USD.
C17_Witness ==
  \E r \in Reqs :
    /\ IsRecognized(r) /\ EmailThrew(r) /\ StoreThrew(r) /\ pc[r] = "done"
    /\ Len(given[r]) = 2 /\ given[r][1] = given[r][2]
    /\ paymentData[r].currency = "usd" /\ row[r].Currency = "USD"
    /\ paymentData[r].amount = 2500

\* C18: appends are atomic under interleaving: with requests in flight
\* whose sink calls settle in any order, every appended entry is in the
\* global sequence exactly once and unaltered (the k-th append at place k,
\* with increasing timestamps), the log is the last min(50, k) entries of
\* that sequence, and each request's own entries keep the order in which
\* that request appended them.
C18_AppendAtomic ==
  /\ Len(history) = now
  /\ \A i \in 1..Len(history) : history[i].timestamp = i - 1
  /\ logs = SliceLast(history, 50)
  /\ Len(logs) = Min(50, now)
  /\ \A r \in Reqs :
       /\ \A i \in 1..Len(appended[r]) :
            history[appended[r][i].timestamp + 1] = appended[r][i]
       /\ \A i \in 1..(Len(appended[r]) - 1) :
            appended[r][i].timestamp < appended[r][i + 1].timestamp

\* C18's case: two requests are in flight, an entry of one lies between
\* two entries of the other, and the log has overflowed.
C18_Witness ==
  /\ Len(history) > 50
  /\ \E r, o \in Reqs :
       /\ r # o
       /\ Len(appended[r]) >= 2 /\ Len(appended[o]) >= 1
       /\ appended[r][1].timestamp < appended[o][1].timestamp
       /\ appended[o][1].timestamp < appended[r][2].timestamp
       /\ pc[o] \in {"awaitGmail", "awaitStore"}
       /\ logs[50] = appended[r][Len(appended[r])]

\* Request r has arrived.
Arrived(r) == route[r] # "none"

\* Request r has been sent one response and no more.
AnsweredOnce(r) == Len(response[r]) = 1

\* Some request has arrived and has not been answered yet.
SomePending == \E r \in Reqs : Arrived(r) /\ ~AnsweredOnce(r)

\* Every request that has arrived has been answered.
AllAnswered == \A r \in Reqs : Arrived(r) => AnsweredOnce(r)

\* C19: a request to /webhook/stripe or /test is never sent two responses,
\* its handler has finished exactly when it has sent one, and, given that
\* every call to a collaborator eventually returns or throws, every request
\* that arrives is eventually answered.  A request that has arrived stays
\* arrived, so each request is eventually answered when, from any state
\* with a pending request, a state is reached where every arrived request
\* has its response.
C19_AnsweredExactlyOnce ==
  /\ [](\A r \in Reqs :
          /\ Len(response[r]) <= 1
          /\ pc[r] = "done" <=> AnsweredOnce(r)
          /\ ~Arrived(r) => response[r] = <<>>
          /\ (Arrived(r) /\ ~AnsweredOnce(r)) => pc[r] \in {"awaitGmail", "awaitStore"})
  /\ SomePending ~> AllAnswered

\* C19's case: a webhook whose handler awaited both collaborators, the
\* second of which threw, has been sent its one response.
C19_Witness ==
  \E r \in Reqs :
    /\ IsRecognized(r) /\ Has(calls[r], "gmail.resolved") /\ StoreThrew(r)
    /\ AnsweredOnce(r) /\ AllAnswered
    /\ Count(calls[r], "respond") = 1

\* The messages of the entries request r appended, in order.
Appended(r) == [i \in 1..Len(appended[r]) |-> appended[r][i].message]

\* C20: a verified webhook of a recognized type appends exactly four
\* entries, in this order: the Dispatcher's outcome (sent or error), the
\* Recorder's outcome (record id or error), the processing outcome and the
\* webhook outcome (both success when the Recorder succeeded, both error
\* when it failed); the response is sent only after all four are appended.
C20_FourEntriesThenResponse ==
  \A r \in Reqs :
    IsRecognized(r) =>
      LET m == Appended(r)
          id == paymentData[r].payment_id
      IN  /\ Len(m) \in {0, 1, 4}
          /\ Len(m) >= 1 =>
               m[1] = IF Has(calls[r], "gmail.resolved") THEN GmailSentMsg(id)
                      ELSE IF EmailThrew(r) THEN GmailErrorMsg(GmailError)
                      ELSE GmailErrorMsg(TypeErrorMsg)
          /\ Len(m) = 4 =>
               IF RecorderSucceeded(r)
               THEN /\ m[2] = AirtableAddedMsg(returned[r])
                    /\ m[3] = ProcessedMsg(id)
                    /\ m[4] = WebhookProcessedMsg(event[r].type)
               ELSE /\ RecorderFailed(r)
                    /\ m[2] = AirtableErrorMsg(err[r])
                    /\ m[3] = ProcessErrorMsg(err[r])
                    /\ m[4] = WebhookErrorMsg(err[r])
          /\ response[r] # <<>> =>
               /\ Len(m) = 4
               /\ Count(calls[r], "addLog") = 4
               /\ calls[r][Len(calls[r])] = "respond"
          /\ pc[r] = "done" <=> response[r] # <<>>

\* C20's case: the email collaborator threw and the store returned: an error
\* entry, the record's id and two success entries, with another request's
\* entry in between, and the answer is 200.
C20_Witness ==
  \E r \in Reqs :
    /\ IsRecognized(r) /\ EmailThrew(r) /\ RecorderSucceeded(r)
    /\ Len(appended[r]) = 4 /\ Statuses(r) = <<200>>
    /\ appended[r][2].timestamp > appended[r][1].timestamp + 1
    /\ appended[r][4].message = WebhookProcessedMsg("charge.failed")

====
